---- MODULE Spec2Model ----
(***************************************************************************)
(* A state-machine model of lifetime_github_stats.py: one run of main()    *)
(* over a GitHubStatsAnalyzer.  The program is sequential; pc is the       *)
(* position of the single thread, and every HTTP exchange, sleep and       *)
(* handler is one step.  The remote API is the environment: each           *)
(* session.get draws its outcome from the responses the endpoint can give. *)
(***************************************************************************)
EXTENDS Integers, Sequences, FiniteSets, TLC

(* ---- program constants ------------------------------------------------ *)
RATE_LIMIT_DELAY == 1
STATS_RETRY_DELAY == 5
MAX_STATS_RETRIES == 6
CACHE_TTL == 86400
MIN_RATE_LIMIT_WAIT == 60
COMMIT_SAMPLE_LIMIT == 10
SCALE_DIVISOR == 100

GITHUB_USERNAME == "me"

(* ---- bounds of the model ---------------------------------------------- *)
\* What the environment does in one run of main():
\* repository records the listings return, over all pages
MaxListed == 3
\* organizations the membership listing names
MaxOrgs == 1
\* rate-limit notices (403 + marker) the API gives
MaxRateLimits == 1
\* user interruptions (Ctrl-C) delivered
MaxInterrupts == 1
\* 202 "still computing" answers of the statistics endpoints
MaxPending == 1
\* responses the repository endpoints deliver (after them the network fails)
MaxAnswers == 2

\* What it does in one direct call of get_repository_stats:
CallRateLimits == 2
CallPending == 12
CallAnswers == 25

\* the clock reading when the analyzer is constructed
StartTime == 200000

(* ---- values ------------------------------------------------------------ *)
\* dict.get(key, default)
Get(d, k, default) == IF k \in DOMAIN d THEN d[k] ELSE default

Max(a, b) == IF a >= b THEN a ELSE b
Min(a, b) == IF a <= b THEN a ELSE b
Abs(a) == IF a < 0 THEN 0 - a ELSE a

\* "absent": the None that _make_request returns
None == [status |-> 0, marker |-> FALSE, reset |-> 0, body |-> [ok |-> FALSE, data |-> <<>>]]

\* requests.Response.__bool__ is Response.ok: a response object with a status
\* of 400 or more is falsy, as None is
Truthy(r) == r.status # 0 /\ r.status < 400

\* a body that response.json() cannot parse
BadJson == [ok |-> FALSE, data |-> <<>>]
Json(data) == [ok |-> TRUE, data |-> data]

Resp(status, body) == [status |-> status, marker |-> FALSE, reset |-> 0, body |-> body]

\* cache_key = f"repo_stats_{repo_name}_v2"
CacheKey(repo_name) == <<"repo_stats", repo_name, "v2">>

(* ---- what the API can answer ------------------------------------------- *)
\* repository records of the listings: the same full_name may come back with
\* different metadata, a record may lack 'fork' or 'size'
RepoPool ==
  { [full_name |-> "a", fork |-> FALSE, size |-> 120],
    [full_name |-> "a", fork |-> TRUE, size |-> 120],
    [full_name |-> "b", size |-> 40],
    [full_name |-> "b", fork |-> FALSE, size |-> 0],
    [full_name |-> "b", fork |-> FALSE] }

RepoNames == {r.full_name : r \in RepoPool}

OrgPool == { [login |-> "org"], [id |-> 7] }

\* statuses other than the 200 and 202 the strategies act on
OtherStatuses == {204, 403, 422}

Week(a, d) == [a |-> a, d |-> d]
Contributor(login, weeks) == [author |-> [login |-> login], weeks |-> weeks]

\* bodies of /stats/contributors
ContributorBodies ==
  { BadJson,
    Json(<<>>),
    Json(<<Contributor("other", <<Week(7, 7)>>)>>),
    Json(<<Contributor("other", <<Week(7, 7)>>),
           Contributor(GITHUB_USERNAME, <<Week(50, 10), Week(30, 5)>>)>>),
    Json(<<[weeks |-> <<Week(9, 9)>>],
           Contributor(GITHUB_USERNAME, <<Week(0, 4)>>),
           Contributor(GITHUB_USERNAME, <<Week(9, 9)>>)>>),
    Json(<<Contributor(GITHUB_USERNAME, <<Week(0, 0)>>)>>) }

\* bodies of /stats/code_frequency: rows [week, additions, deletions]
CodeFrequencyBodies ==
  { BadJson,
    Json(<<>>),
    Json(<< <<1, 100, -40>>, <<2, 250, -10>> >>),
    Json(<< <<1, 30>>, <<2, 9, -9>> >>) }

Commit(sha) == [sha |-> sha]

\* bodies of /commits?author=...: commit records, one of them without 'sha';
\* the longest list is past the sample limit of 10 and past the 50 commits
\* from which the estimate is capped
CommitListBodies ==
  { BadJson,
    Json(<<>>),
    Json(<<Commit("s1")>>),
    Json(<<Commit("s1"), Commit("s2")>>),
    Json(<<Commit("s1"), [node_id |-> "n"]>>),
    Json([k \in 1..(SCALE_DIVISOR \div 2 + 1) |-> Commit("s1")]) }

\* bodies of /commits/<sha>
CommitBodies ==
  { BadJson,
    Json([sha |-> "s1"]),
    Json([stats |-> [additions |-> 3, deletions |-> 1]]) }

(* ---- pure parts of the program ----------------------------------------- *)
EmptyMap == [k \in {} |-> None]

\* faulty variant of the freshness test: an entry exactly 86400 s old still counts
CacheFreshInclusive(c, key, t) ==
  /\ key \in DOMAIN c
  /\ t - Get(c[key], "timestamp", 0) <= CACHE_TTL

\* cache_key in self.cache and time.time() - cached_data.get('timestamp', 0) < 86400
CacheFresh(c, key, t) ==
  /\ key \in DOMAIN c
  /\ t - Get(c[key], "timestamp", 0) < CACHE_TTL

\* faulty variant of the weekly sum: the first week only
SumWeeksFirst(weeks, f) == IF weeks = <<>> THEN 0 ELSE Get(Head(weeks), f, 0)

RECURSIVE SumWeeks(_, _)
\* sum(week.get(f, 0) for week in weeks)
SumWeeks(weeks, f) ==
  IF weeks = <<>> THEN 0
  ELSE Get(Head(weeks), f, 0) + SumWeeks(Tail(weeks), f)

RECURSIVE ContributorStats(_, _)
\* the scan of the contributor records: the first record whose author login
\* is the user decides; (0, 0) when none matches
ContributorStats(contributors, username) ==
  IF contributors = <<>> THEN <<0, 0>>
  ELSE LET c == Head(contributors) IN
       IF "author" \in DOMAIN c /\ Get(c.author, "login", "") = username
       THEN <<SumWeeks(Get(c, "weeks", <<>>), "a"), SumWeeks(Get(c, "weeks", <<>>), "d")>>
       ELSE ContributorStats(Tail(contributors), username)

RECURSIVE SumColumn(_, _)
\* sum(week[col - 1] for week in frequency_data if len(week) >= col)
SumColumn(rows, col) ==
  IF rows = <<>> THEN 0
  ELSE (IF Len(Head(rows)) >= col THEN Head(rows)[col] ELSE 0) + SumColumn(Tail(rows), col)

\* faulty variant of the estimate: the share is not capped
EstimateUncapped(total, user_commits) == (total * user_commits) \div SCALE_DIVISOR

\* int(total * min(user_commits / 100, 0.5)); exact for the sample sizes and
\* totals of this model, where the float product is not off by an ulp
Estimate(total, user_commits) ==
  IF 2 * user_commits >= SCALE_DIVISOR THEN total \div 2
  ELSE (total * user_commits) \div SCALE_DIVISOR

RECURSIVE RemoveDuplicates(_, _)
\* the loop over repos with the set seen: a record is kept when its full_name
\* was not seen before
RemoveDuplicates(repos, seen) ==
  IF repos = <<>> THEN <<>>
  ELSE IF Head(repos).full_name \in seen
       THEN RemoveDuplicates(Tail(repos), seen)
       ELSE <<Head(repos)>> \o RemoveDuplicates(Tail(repos), seen \cup {Head(repos).full_name})

\* faulty variant of the emptiness rule: a record without 'size' is not skipped
IsEmptyStrict(repo) == "size" \in DOMAIN repo /\ repo.size = 0

\* the two skip rules of the driver's loop
IsFork(repo) == Get(repo, "fork", FALSE)
IsEmpty(repo) == Get(repo, "size", 0) = 0

\* faulty variant of the fall-through test: only the additions are looked at
IsZeroAdditions(additions, deletions) == additions = 0

\* additions == 0 and deletions == 0: the test that lets the cascade fall through
IsZero(additions, deletions) == additions = 0 /\ deletions = 0

\* faulty variant of the breakdown test: deletions alone do not count
HasAdditions(additions, deletions) == additions > 0

\* additions > 0 or deletions > 0: the test that puts a repository in the breakdown
HasContribution(additions, deletions) == additions > 0 \/ deletions > 0

\* the entry get_repository_stats writes
CacheEntry(additions, deletions, t) ==
  [additions |-> additions, deletions |-> deletions, timestamp |-> t]

\* faulty variant of the wait: the reset header alone decides
WaitTimeOfHeader(reset_time, t) == reset_time - t

\* max(reset_time - int(time.time()), 60)
WaitTime(reset_time, t) == Max(reset_time - t, MIN_RATE_LIMIT_WAIT)

SeqsUpTo(S, n) == UNION {[1..k -> S] : k \in 0..n}

(* ---- state -------------------------------------------------------------- *)
VARIABLES
  pc,        \* position of the program
  now,       \* the clock: time.time(), in seconds
  cache,     \* self.cache
  disk,      \* the cache file
  call,      \* the frame of _make_request: url, params, allow_non_200, return point
  response,  \* what the last _make_request returned, until the caller has read it
  fetch,     \* the frame of _get_paginated_data
  enum,      \* the locals of get_all_repositories
  drv,       \* the locals of analyze_all_repositories
  grs,       \* the locals of get_repository_stats and of the strategy it runs
  budget,    \* what the environment may still do (the bounds, counted down)
  hist       \* history: what was listed, asked, invoked, written and saved

vars == <<pc, now, cache, disk, call, response, fetch, enum, drv, grs, budget, hist>>

(* ---- the cache file ----------------------------------------------------- *)
Fresh(additions, deletions) == CacheEntry(additions, deletions, StartTime - 100)

\* the mappings a previous run, or a hand, may have left in the file
StoredMappings ==
  { (CacheKey("a") :> CacheEntry(10, 2, StartTime - CACHE_TTL + 2))
      @@ (CacheKey("b") :> [additions |-> 4, deletions |-> 4]),
    (CacheKey("a") :> Fresh(0, 0))
      @@ (CacheKey("b") :> CacheEntry(4, 4, StartTime - CACHE_TTL + 1))
      @@ (<<"repo_stats", "b">> :> Fresh(1, 1)) }

InitDisks ==
  {[state |-> "missing", data |-> EmptyMap]}
    \cup {[state |-> "ok", data |-> m] : m \in StoredMappings}

\* _load_cache: the mapping of the file, {} when it is missing or unreadable
LoadCache(file) == IF file.state = "ok" THEN file.data ELSE EmptyMap

\* _save_cache: the file after the call; the write is best effort (open or
\* json.dump may fail, which is caught and only warned about)
SaveCache(file, mapping) ==
  { [state |-> "ok", data |-> mapping],
    [state |-> "corrupt", data |-> EmptyMap],
    file }

(* ---- initial state: the analyzer is constructed --------------------------- *)
NoCall == [url |-> <<"none", "">>, params |-> "", allow_non_200 |-> FALSE,
           ret |-> "none", reset_time |-> 0, wait |-> 0]
NoFetch == [url |-> <<"none", "">>, results |-> <<>>, page |-> 1, ret |-> "none"]
NoEnum == [repos |-> <<>>, orgs |-> <<>>, idx |-> 1]
NoDrv == [repos |-> <<>>, i |-> 1, total_additions |-> 0, total_deletions |-> 0,
          processed_repos |-> 0, repos_with_contributions |-> <<>>]
NoGrs == [repo_name |-> "", caller |-> "", additions |-> 0, deletions |-> 0,
          attempt |-> 0, frequency_data |-> <<>>, commits |-> <<>>, k |-> 1,
          total_additions |-> 0, total_deletions |-> 0]

\* the history of one call of get_repository_stats
NoCallHist == [now |-> 0, cache |-> EmptyMap, hit |-> FALSE, requests |-> 0,
               limited |-> 0, started |-> <<>>, invoked |-> <<>>, escaped |-> FALSE]
NoIter == [total_additions |-> 0, total_deletions |-> 0, breakdown |-> <<>>,
           cache |-> EmptyMap]
NoHist == [listed |-> <<>>, calls |-> <<>>, net |-> {}, written |-> EmptyMap,
           inCall |-> NoCallHist, atIter |-> NoIter, processed |-> <<>>,
           saved |-> <<>>, outcome |-> "running", first |-> <<>>]

RunBudget == [rateLimits |-> MaxRateLimits,
              interrupts |-> MaxInterrupts, pending |-> MaxPending,
              answers |-> MaxAnswers]
CallBudget == [rateLimits |-> CallRateLimits,
               interrupts |-> 0, pending |-> CallPending,
               answers |-> CallAnswers]

Constructed ==
  /\ now = StartTime
  /\ disk \in InitDisks
  /\ cache = LoadCache(disk)
  /\ call = NoCall
  /\ response = None
  /\ fetch = NoFetch
  /\ enum = NoEnum
  /\ drv = NoDrv
  /\ grs = NoGrs
  /\ hist = NoHist

\* main() has constructed the analyzer and enters its try block
Init ==
  /\ pc = "main"
  /\ budget = RunBudget
  /\ Constructed

(* ---- _make_request -------------------------------------------------------- *)
\* the endpoints that belong to one repository
RepoKinds == {"contributors", "code_frequency", "commits", "commit"}

\* the endpoints GitHub computes in the background, answering 202 meanwhile
StatsKinds == {"contributors", "code_frequency"}

ListKinds == {"user_repos", "org_repos"}

\* bodies the endpoint of the call can answer a 200 with
Bodies(c) ==
  CASE c.url[1] \in ListKinds ->
         {BadJson} \cup {Json(items) : items \in SeqsUpTo(RepoPool, MaxListed - Len(hist.listed))}
    [] c.url[1] = "user_orgs" ->
         {BadJson} \cup {Json(orgs) : orgs \in SeqsUpTo(OrgPool, MaxOrgs)}
    [] c.url[1] = "contributors" -> ContributorBodies
    [] c.url[1] = "code_frequency" -> CodeFrequencyBodies
    [] c.url[1] = "commits" -> CommitListBodies
    [] c.url[1] = "commit" -> CommitBodies

\* the answers that are not a rate-limit notice
Answers(c) ==
  IF c.url[1] \in RepoKinds /\ budget.answers = 0 THEN {}
  ELSE {Resp(200, b) : b \in Bodies(c)}
         \cup {Resp(s, Json(<<>>)) : s \in OtherStatuses}
         \cup (IF c.url[1] \in StatsKinds /\ budget.pending > 0
               THEN {Resp(202, Json(<<>>))} ELSE {})

\* 403 with 'rate limit' in the text; the reset header is missing (read as
\* 0), a few seconds ahead, or a day ahead
RateLimitNotices ==
  {[status |-> 403, marker |-> TRUE, reset |-> r, body |-> Json(<<>>)] :
     r \in {0, now + 5, now + CACHE_TTL}}

\* a caller's call of _make_request(url, params, allow_non_200), to return at ret
MakeRequest(url, params, allow_non_200, ret) ==
  /\ call' = [url |-> url, params |-> params, allow_non_200 |-> allow_non_200,
              ret |-> ret, reset_time |-> 0, wait |-> 0]
  /\ pc' = "make_request"

\* history of one session.get
Asked ==
  IF call.url[1] \in RepoKinds
  THEN [hist EXCEPT !.inCall.requests = @ + 1, !.net = @ \cup {call.url[2]}]
  ELSE hist

\* history of one rate-limit notice
Limited(h) ==
  IF call.url[1] \in RepoKinds THEN [h EXCEPT !.inCall.limited = @ + 1] ELSE h

\* session.get raises (timeout, connection error): caught, None returned
RequestFails ==
  /\ pc = "make_request"
  /\ response' = None
  /\ pc' = call.ret
  /\ call' = NoCall
  /\ hist' = Asked
  /\ UNCHANGED <<now, cache, disk, fetch, enum, drv, grs, budget>>

\* the response is a rate-limit notice: wait_time is computed
RequestRateLimited ==
  /\ pc = "make_request"
  /\ budget.rateLimits > 0
  /\ \E r \in RateLimitNotices :
       call' = [call EXCEPT !.reset_time = r.reset,
                            !.wait = WaitTime(r.reset, now)]
  /\ budget' = [budget EXCEPT !.rateLimits = @ - 1]
  /\ pc' = "rate_limit_sleep"
  /\ hist' = Limited(Asked)
  /\ UNCHANGED <<now, cache, disk, response, fetch, enum, drv, grs>>

\* faulty variant of the wait: after it the caller gets None, the request is
\* not made again
RateLimitGiveUp ==
  /\ pc = "rate_limit_sleep"
  /\ now' = now + call.wait
  /\ response' = None
  /\ pc' = call.ret
  /\ call' = NoCall
  /\ UNCHANGED <<cache, disk, fetch, enum, drv, grs, budget, hist>>

\* time.sleep(wait_time), then the same request again
RateLimitSleep ==
  /\ pc = "rate_limit_sleep"
  /\ now' = now + call.wait
  /\ call' = [call EXCEPT !.reset_time = 0, !.wait = 0]
  /\ pc' = "make_request"
  /\ UNCHANGED <<cache, disk, response, fetch, enum, drv, grs, budget, hist>>

\* faulty variant of the return: the response whatever its status
ReturnedAnyStatus(r, allow_non_200) == r

\* what _make_request returns for an answer that is no rate-limit notice
Returned(r, allow_non_200) ==
  IF allow_non_200 \/ r.status = 200 THEN r ELSE None

\* any other response: returned after the fixed delay when allow_non_200 or
\* the status is 200, None otherwise
RequestReturns ==
  /\ pc = "make_request"
  /\ \E r \in Answers(call) :
       /\ response' = Returned(r, call.allow_non_200)
       /\ now' = IF response'.status = 0 THEN now ELSE now + RATE_LIMIT_DELAY
       /\ budget' = [budget EXCEPT
            !.pending = IF r.status = 202 THEN @ - 1 ELSE @,
            !.answers = IF call.url[1] \in RepoKinds /\ response'.status # 0
                        THEN @ - 1 ELSE @]
  /\ pc' = call.ret
  /\ call' = NoCall
  /\ hist' = Asked
  /\ UNCHANGED <<cache, disk, fetch, enum, drv, grs>>

(* ---- exceptions ----------------------------------------------------------- *)
EnumPcs == {"main", "paginate", "paginate_ret", "personal_done", "orgs_ret",
            "org_loop", "org_done", "dedupe", "analyze"}

\* the frame the program is in: that of the caller while _make_request runs
Where == IF pc \in {"make_request", "rate_limit_sleep"} THEN call.ret ELSE pc

\* faulty variant of the handlers: the loop body of the driver has no try, every
\* Exception reaches main()
ExceptionHandlerTopLevel == "main_exc"

\* where an Exception raised at the present position is caught: raised in
\* get_all_repositories it reaches the try of main(), raised inside
\* get_repository_stats the try of the caller (the driver's loop body)
ExceptionHandler ==
  IF Where \in EnumPcs THEN "main_exc"
  ELSE IF grs.caller = "test" THEN "test_except"
  ELSE "repo_except"

\* where get_repository_stats returns to
ReturnPoint == IF grs.caller = "test" THEN "test_return" ELSE "stats_return"

(* ---- _get_paginated_data -------------------------------------------------- *)
PER_PAGE == 100

\* the request of the current page
PaginateRequest ==
  /\ pc = "paginate"
  /\ MakeRequest(fetch.url, [page |-> fetch.page, per_page |-> PER_PAGE], FALSE,
                 "paginate_ret")
  /\ UNCHANGED <<now, cache, disk, response, fetch, enum, drv, grs, budget, hist>>

\* faulty variant of the loop body: the results are the items of the last
\* page, not of all pages
PaginateResponseLastPage ==
  /\ pc = "paginate_ret"
  /\ IF ~Truthy(response)
     THEN pc' = fetch.ret /\ UNCHANGED <<fetch, hist>>
     ELSE IF ~response.body.ok
     THEN pc' = "main_exc" /\ UNCHANGED <<fetch, hist>>
     ELSE IF Len(response.body.data) = 0
     THEN pc' = fetch.ret /\ UNCHANGED <<fetch, hist>>
     ELSE /\ fetch' = [fetch EXCEPT !.results = response.body.data, !.page = @ + 1]
          /\ hist' = [hist EXCEPT !.listed = @ \o response.body.data]
          /\ pc' = "paginate"
  /\ response' = None
  /\ UNCHANGED <<now, cache, disk, call, enum, drv, grs, budget>>

\* the rest of the loop body: break on an absent response or an empty page,
\* else extend the results and go to the next page
PaginateResponse ==
  /\ pc = "paginate_ret"
  /\ IF ~Truthy(response)
     THEN pc' = fetch.ret /\ UNCHANGED <<fetch, hist>>
     ELSE IF ~response.body.ok
     THEN pc' = ExceptionHandler /\ UNCHANGED <<fetch, hist>>
     ELSE IF Len(response.body.data) = 0
     THEN pc' = fetch.ret /\ UNCHANGED <<fetch, hist>>
     ELSE /\ fetch' = [fetch EXCEPT !.results = @ \o response.body.data,
                                    !.page = @ + 1]
          /\ hist' = [hist EXCEPT !.listed = @ \o response.body.data]
          /\ pc' = "paginate"
  /\ response' = None
  /\ UNCHANGED <<now, cache, disk, call, enum, drv, grs, budget>>

(* ---- get_all_repositories -------------------------------------------------- *)
\* main() calls analyze_all_repositories, which lists the personal repositories
GetAllRepositories ==
  /\ pc = "main"
  /\ fetch' = [url |-> <<"user_repos", "">>, results |-> <<>>, page |-> 1,
               ret |-> "personal_done"]
  /\ pc' = "paginate"
  /\ UNCHANGED <<now, cache, disk, call, response, enum, drv, grs, budget, hist>>

\* repos is the personal listing; the organizations are asked for
PersonalDone ==
  /\ pc = "personal_done"
  /\ enum' = [enum EXCEPT !.repos = fetch.results]
  /\ fetch' = NoFetch
  /\ MakeRequest(<<"user_orgs", "">>, "", FALSE, "orgs_ret")
  /\ UNCHANGED <<now, cache, disk, response, drv, grs, budget, hist>>

OrgsResponse ==
  /\ pc = "orgs_ret"
  /\ IF ~Truthy(response)
     THEN pc' = "dedupe" /\ UNCHANGED enum
     ELSE IF ~response.body.ok
     THEN pc' = ExceptionHandler /\ UNCHANGED enum
     ELSE /\ enum' = [enum EXCEPT !.orgs = response.body.data, !.idx = 1]
          /\ pc' = "org_loop"
  /\ response' = None
  /\ UNCHANGED <<now, cache, disk, call, fetch, drv, grs, budget, hist>>

\* for org in orgs: list the organization's repositories (org['login'] raises
\* KeyError when the record has no login)
OrgLoop ==
  /\ pc = "org_loop"
  /\ IF enum.idx > Len(enum.orgs)
     THEN pc' = "dedupe" /\ UNCHANGED fetch
     ELSE IF "login" \notin DOMAIN enum.orgs[enum.idx]
     THEN pc' = ExceptionHandler /\ UNCHANGED fetch
     ELSE /\ fetch' = [url |-> <<"org_repos", enum.orgs[enum.idx].login>>,
                       results |-> <<>>, page |-> 1, ret |-> "org_done"]
          /\ pc' = "paginate"
  /\ UNCHANGED <<now, cache, disk, call, response, enum, drv, grs, budget, hist>>

\* repos.extend(org_repos)
OrgDone ==
  /\ pc = "org_done"
  /\ enum' = [enum EXCEPT !.repos = @ \o fetch.results, !.idx = @ + 1]
  /\ fetch' = NoFetch
  /\ pc' = "org_loop"
  /\ UNCHANGED <<now, cache, disk, call, response, drv, grs, budget, hist>>

\* faulty variant of the end of get_all_repositories: the list is returned as
\* it was collected
DedupeKeepAll ==
  /\ pc = "dedupe"
  /\ drv' = [NoDrv EXCEPT !.repos = enum.repos]
  /\ enum' = NoEnum
  /\ pc' = "analyze"
  /\ UNCHANGED <<now, cache, disk, call, response, fetch, grs, budget, hist>>

\* the duplicates are removed and the list is returned to the driver
Dedupe ==
  /\ pc = "dedupe"
  /\ drv' = [NoDrv EXCEPT !.repos = RemoveDuplicates(enum.repos, {})]
  /\ enum' = NoEnum
  /\ pc' = "analyze"
  /\ UNCHANGED <<now, cache, disk, call, response, fetch, grs, budget, hist>>

(* ---- analyze_all_repositories ---------------------------------------------- *)
Done(name, kind, additions, deletions) ==
  [name |-> name, kind |-> kind, additions |-> additions, deletions |-> deletions]

\* the totals and the breakdown are initialised; the loop starts
StartLoop ==
  /\ pc = "analyze"
  /\ drv' = [drv EXCEPT !.i = 1, !.total_additions = 0, !.total_deletions = 0,
                        !.processed_repos = 0, !.repos_with_contributions = <<>>]
  /\ hist' = [hist EXCEPT !.listed = <<>>]
  /\ pc' = "loop"
  /\ UNCHANGED <<now, cache, disk, call, response, fetch, enum, grs, budget>>

\* the loop is over: _save_cache
LoopExit ==
  /\ pc = "loop"
  /\ drv.i > Len(drv.repos)
  /\ pc' = "save"
  /\ UNCHANGED <<now, cache, disk, call, response, fetch, enum, drv, grs, budget, hist>>

\* a fork or an empty repository: continue
SkipRepo ==
  /\ pc = "loop"
  /\ drv.i <= Len(drv.repos)
  /\ IsFork(drv.repos[drv.i]) \/ IsEmpty(drv.repos[drv.i])
  /\ drv' = [drv EXCEPT !.i = @ + 1]
  /\ hist' = [hist EXCEPT !.processed =
                Append(@, Done(drv.repos[drv.i].full_name, "skipped", 0, 0))]
  /\ UNCHANGED <<pc, now, cache, disk, call, response, fetch, enum, grs, budget>>

\* history of the entry into get_repository_stats
Entered(h, repo_name, t) ==
  [h EXCEPT !.calls = Append(@, repo_name),
            !.inCall = [NoCallHist EXCEPT !.now = t, !.cache = cache]]

\* self.get_repository_stats(repo)
CallStats ==
  /\ pc = "loop"
  /\ drv.i <= Len(drv.repos)
  /\ ~(IsFork(drv.repos[drv.i]) \/ IsEmpty(drv.repos[drv.i]))
  /\ grs' = [NoGrs EXCEPT !.repo_name = drv.repos[drv.i].full_name, !.caller = "driver"]
  /\ pc' = "cache_check"
  /\ hist' = [Entered(hist, drv.repos[drv.i].full_name, now) EXCEPT
       !.atIter = [total_additions |-> drv.total_additions,
                   total_deletions |-> drv.total_deletions,
                   breakdown |-> drv.repos_with_contributions,
                   cache |-> cache]]
  /\ UNCHANGED <<now, cache, disk, call, response, fetch, enum, drv, budget>>

\* the values returned are added to the totals and the breakdown when one of
\* them is positive
Accumulate ==
  /\ pc = "stats_return"
  /\ drv' = IF HasContribution(grs.additions, grs.deletions)
            THEN [drv EXCEPT
                   !.total_additions = @ + grs.additions,
                   !.total_deletions = @ + grs.deletions,
                   !.processed_repos = @ + 1,
                   !.repos_with_contributions =
                      Append(@, [name |-> drv.repos[drv.i].full_name,
                                 additions |-> grs.additions,
                                 deletions |-> grs.deletions]),
                   !.i = @ + 1]
            ELSE [drv EXCEPT !.i = @ + 1]
  /\ hist' = [hist EXCEPT
       !.processed = Append(@, Done(drv.repos[drv.i].full_name, "result",
                                    grs.additions, grs.deletions)),
       !.inCall = NoCallHist, !.atIter = NoIter]
  /\ grs' = NoGrs
  /\ pc' = "loop"
  /\ UNCHANGED <<now, cache, disk, call, response, fetch, enum, budget>>

\* except Exception in the loop body: the error is printed, continue
RepoFault ==
  /\ pc = "repo_except"
  /\ drv' = [drv EXCEPT !.i = @ + 1]
  /\ hist' = [hist EXCEPT
       !.processed = Append(@, Done(drv.repos[drv.i].full_name, "fault", 0, 0)),
       !.inCall = NoCallHist, !.atIter = NoIter]
  /\ grs' = NoGrs
  /\ pc' = "loop"
  /\ UNCHANGED <<now, cache, disk, call, response, fetch, enum, budget>>

\* self._save_cache() after the loop
SaveAfterLoop ==
  /\ pc = "save"
  /\ disk' \in SaveCache(disk, cache)
  /\ hist' = [hist EXCEPT !.saved = Append(@, cache)]
  /\ pc' = "report"
  /\ UNCHANGED <<now, cache, call, response, fetch, enum, drv, grs, budget>>

\* the results are printed and the totals returned to main(), which ends
Report ==
  /\ pc = "report"
  /\ pc' = "exit"
  /\ hist' = [hist EXCEPT !.outcome = "completed"]
  /\ UNCHANGED <<now, cache, disk, call, response, fetch, enum, drv, grs, budget>>

(* ---- main ------------------------------------------------------------------- *)
\* except KeyboardInterrupt: analyzer._save_cache()
InterruptHandler ==
  /\ pc = "main_kbd"
  /\ disk' \in SaveCache(disk, cache)
  /\ hist' = [hist EXCEPT !.saved = Append(@, cache), !.outcome = "interrupted"]
  /\ pc' = "exit"
  /\ UNCHANGED <<now, cache, call, response, fetch, enum, drv, grs, budget>>

\* except Exception: analyzer._save_cache()
FaultHandler ==
  /\ pc = "main_exc"
  /\ disk' \in SaveCache(disk, cache)
  /\ hist' = [hist EXCEPT !.saved = Append(@, cache), !.outcome = "faulted"]
  /\ pc' = "exit"
  /\ UNCHANGED <<now, cache, call, response, fetch, enum, drv, grs, budget>>

(* ---- get_repository_stats --------------------------------------------------- *)
\* faulty variant of the return of a pair: the two numbers change places
OutSwapped(g, additions, deletions) ==
  [g EXCEPT !.additions = deletions, !.deletions = additions,
            !.attempt = 0, !.frequency_data = <<>>, !.commits = <<>>, !.k = 1,
            !.total_additions = 0, !.total_deletions = 0]

\* a strategy returns (additions, deletions) to get_repository_stats: its
\* own locals are gone
Out(g, additions, deletions) ==
  [NoGrs EXCEPT !.repo_name = g.repo_name, !.caller = g.caller,
                !.additions = additions, !.deletions = deletions]
Invoked(h, strategy, additions, deletions) ==
  [h EXCEPT !.inCall.invoked =
     Append(@, [strategy |-> strategy, additions |-> additions, deletions |-> deletions])]
Started(h, strategy) == [h EXCEPT !.inCall.started = Append(@, strategy)]

\* faulty variant of the lookup: reading a fresh entry renews its timestamp
CacheCheckRefreshing ==
  /\ pc = "cache_check"
  /\ IF CacheFresh(cache, CacheKey(grs.repo_name), now)
     THEN /\ grs' = Out(grs, cache[CacheKey(grs.repo_name)].additions,
                             cache[CacheKey(grs.repo_name)].deletions)
          /\ cache' = [cache EXCEPT ![CacheKey(grs.repo_name)].timestamp = now]
          /\ hist' = [hist EXCEPT !.inCall.hit = TRUE]
          /\ pc' = ReturnPoint
     ELSE /\ grs' = [grs EXCEPT !.attempt = 0]
          /\ cache' = cache
          /\ hist' = Started(hist, "contributors")
          /\ pc' = "contributors"
  /\ UNCHANGED <<now, disk, call, response, fetch, enum, drv, budget>>

\* the cache is looked at first: a fresh entry is returned, else the
\* contributor strategy is called
CacheCheck ==
  /\ pc = "cache_check"
  /\ IF CacheFresh(cache, CacheKey(grs.repo_name), now)
     THEN /\ grs' = Out(grs, cache[CacheKey(grs.repo_name)].additions,
                             cache[CacheKey(grs.repo_name)].deletions)
          /\ hist' = [hist EXCEPT !.inCall.hit = TRUE]
          /\ pc' = ReturnPoint
     ELSE /\ grs' = [grs EXCEPT !.attempt = 0]
          /\ hist' = Started(hist, "contributors")
          /\ pc' = "contributors"
  /\ UNCHANGED <<now, cache, disk, call, response, fetch, enum, drv, budget>>

\* faulty variant of the polling loop: one attempt more than MAX_STATS_RETRIES
ContributorsPollOneMore ==
  /\ pc = "contributors"
  /\ IF grs.attempt > MAX_STATS_RETRIES
     THEN /\ grs' = [grs EXCEPT !.additions = 0, !.deletions = 0, !.attempt = 0]
          /\ hist' = [hist EXCEPT !.inCall.invoked =
               Append(@, [strategy |-> "contributors", additions |-> 0, deletions |-> 0])]
          /\ pc' = "after_contributors"
          /\ UNCHANGED call
     ELSE /\ MakeRequest(<<"contributors", grs.repo_name>>, "", TRUE, "contributors_ret")
          /\ UNCHANGED <<grs, hist>>
  /\ UNCHANGED <<now, cache, disk, response, fetch, enum, drv, budget>>

\* _get_stats_from_contributors_with_retry: the head of the for loop; after
\* MAX_STATS_RETRIES attempts (0, 0)
ContributorsPoll ==
  /\ pc = "contributors"
  /\ IF grs.attempt >= MAX_STATS_RETRIES
     THEN /\ grs' = Out(grs, 0, 0)
          /\ hist' = Invoked(hist, "contributors", 0, 0)
          /\ pc' = "after_contributors"
          /\ UNCHANGED call
     ELSE /\ MakeRequest(<<"contributors", grs.repo_name>>, "", TRUE, "contributors_ret")
          /\ UNCHANGED <<grs, hist>>
  /\ UNCHANGED <<now, cache, disk, response, fetch, enum, drv, budget>>

\* what the strategy returns for a response that ends the polling: the scan
\* of the records on 200 (an exception in it is caught), (0, 0) otherwise
ContributorsResult(r) ==
  IF Truthy(r) /\ r.status = 200 /\ r.body.ok
  THEN ContributorStats(r.body.data, GITHUB_USERNAME)
  ELSE <<0, 0>>

\* the body of the for loop after the request
ContributorsResponse ==
  /\ pc = "contributors_ret"
  /\ IF Truthy(response) /\ response.status = 202
     THEN /\ now' = now + STATS_RETRY_DELAY
          /\ grs' = [grs EXCEPT !.attempt = @ + 1]
          /\ pc' = "contributors"
          /\ UNCHANGED hist
     ELSE LET res == ContributorsResult(response) IN
          /\ grs' = Out(grs, res[1], res[2])
          /\ hist' = Invoked(hist, "contributors", res[1], res[2])
          /\ pc' = "after_contributors"
          /\ UNCHANGED now
  /\ response' = None
  /\ UNCHANGED <<cache, disk, call, fetch, enum, drv, budget>>

\* if additions == 0 and deletions == 0: the code-frequency strategy
AfterContributors ==
  /\ pc = "after_contributors"
  /\ IF IsZero(grs.additions, grs.deletions)
     THEN /\ grs' = [grs EXCEPT !.attempt = 0]
          /\ hist' = Started(hist, "code_frequency")
          /\ pc' = "code_frequency"
     ELSE /\ pc' = "after_code_frequency"
          /\ UNCHANGED <<grs, hist>>
  /\ UNCHANGED <<now, cache, disk, call, response, fetch, enum, drv, budget>>

\* _get_stats_from_code_frequency: the head of the for loop
CodeFrequencyPoll ==
  /\ pc = "code_frequency"
  /\ IF grs.attempt >= MAX_STATS_RETRIES
     THEN /\ grs' = Out(grs, 0, 0)
          /\ hist' = Invoked(hist, "code_frequency", 0, 0)
          /\ pc' = "after_code_frequency"
          /\ UNCHANGED call
     ELSE /\ MakeRequest(<<"code_frequency", grs.repo_name>>, "", TRUE, "code_frequency_ret")
          /\ UNCHANGED <<grs, hist>>
  /\ UNCHANGED <<now, cache, disk, response, fetch, enum, drv, budget>>

\* the body of the for loop after the request: on 200 with data the user's
\* commits are sampled (_get_user_commits_sample)
CodeFrequencyResponse ==
  /\ pc = "code_frequency_ret"
  /\ IF Truthy(response) /\ response.status = 202
     THEN /\ now' = now + STATS_RETRY_DELAY
          /\ grs' = [grs EXCEPT !.attempt = @ + 1]
          /\ pc' = "code_frequency"
          /\ UNCHANGED <<call, hist>>
     ELSE IF Truthy(response) /\ response.status = 200 /\ response.body.ok
             /\ Len(response.body.data) > 0
     THEN /\ grs' = [grs EXCEPT !.frequency_data = response.body.data]
          /\ MakeRequest(<<"commits", grs.repo_name>>, "author", FALSE, "cf_sample_ret")
          /\ UNCHANGED <<now, hist>>
     ELSE /\ grs' = Out(grs, 0, 0)
          /\ hist' = Invoked(hist, "code_frequency", 0, 0)
          /\ pc' = "after_code_frequency"
          /\ UNCHANGED <<now, call>>
  /\ response' = None
  /\ UNCHANGED <<cache, disk, fetch, enum, drv, budget>>

\* _get_user_commits_sample after its request: the parsed list, [] when the
\* response is absent or response.json() raises (except: pass)
UserCommits(r) == IF Truthy(r) /\ r.body.ok THEN r.body.data ELSE <<>>

\* the sample is back: without commits (0, 0); else the repository totals
\* are summed and the commit listing is asked once more
CodeFrequencySample ==
  /\ pc = "cf_sample_ret"
  /\ IF Len(UserCommits(response)) = 0
     THEN /\ grs' = Out(grs, 0, 0)
          /\ hist' = Invoked(hist, "code_frequency", 0, 0)
          /\ pc' = "after_code_frequency"
          /\ UNCHANGED call
     ELSE /\ grs' = [grs EXCEPT
               !.commits = UserCommits(response),
               !.total_additions = SumColumn(grs.frequency_data, 2),
               !.total_deletions = Abs(SumColumn(grs.frequency_data, 3))]
          /\ MakeRequest(<<"commits", grs.repo_name>>, "per_page", FALSE, "cf_total_ret")
          /\ UNCHANGED hist
  /\ response' = None
  /\ UNCHANGED <<now, cache, disk, fetch, enum, drv, budget>>

\* the estimate, when the second listing came back
CodeFrequencyTotal ==
  /\ pc = "cf_total_ret"
  /\ LET a == IF Truthy(response) THEN Estimate(grs.total_additions, Len(grs.commits)) ELSE 0
         d == IF Truthy(response) THEN Estimate(grs.total_deletions, Len(grs.commits)) ELSE 0
     IN /\ grs' = Out(grs, a, d)
        /\ hist' = Invoked(hist, "code_frequency", a, d)
  /\ pc' = "after_code_frequency"
  /\ response' = None
  /\ UNCHANGED <<now, cache, disk, call, fetch, enum, drv, budget>>

\* if additions == 0 and deletions == 0: the commit-sampling strategy, which
\* starts with _get_user_commits_sample
AfterCodeFrequency ==
  /\ pc = "after_code_frequency"
  /\ IF IsZero(grs.additions, grs.deletions)
     THEN /\ hist' = Started(hist, "commits_sample")
          /\ MakeRequest(<<"commits", grs.repo_name>>, "author", FALSE, "sample_ret")
     ELSE /\ pc' = "cache_write"
          /\ UNCHANGED <<call, hist>>
  /\ UNCHANGED <<now, cache, disk, response, fetch, enum, drv, grs, budget>>

\* _get_stats_from_commits_sample: the sample is back
SampleResponse ==
  /\ pc = "sample_ret"
  /\ IF Len(UserCommits(response)) = 0
     THEN /\ grs' = Out(grs, 0, 0)
          /\ hist' = Invoked(hist, "commits_sample", 0, 0)
          /\ pc' = "cache_write"
     ELSE /\ grs' = [grs EXCEPT !.commits = UserCommits(response), !.k = 1,
                                !.total_additions = 0, !.total_deletions = 0]
          /\ pc' = "sample_loop"
          /\ UNCHANGED hist
  /\ response' = None
  /\ UNCHANGED <<now, cache, disk, call, fetch, enum, drv, budget>>

\* faulty variant of the loop: over every commit of the sample, not the
\* first ten
SampleLoopWholeList ==
  /\ pc = "sample_loop"
  /\ IF grs.k > Len(grs.commits)
     THEN /\ grs' = Out(grs, grs.total_additions, grs.total_deletions)
          /\ hist' = Invoked(hist, "commits_sample", grs.total_additions, grs.total_deletions)
          /\ pc' = "cache_write"
          /\ UNCHANGED call
     ELSE IF "sha" \notin DOMAIN grs.commits[grs.k]
     THEN /\ pc' = ExceptionHandler
          /\ hist' = [hist EXCEPT !.inCall.escaped = TRUE]
          /\ UNCHANGED <<call, grs>>
     ELSE /\ MakeRequest(<<"commit", grs.repo_name, grs.commits[grs.k].sha>>, "", FALSE,
                         "commit_ret")
          /\ UNCHANGED <<grs, hist>>
  /\ UNCHANGED <<now, cache, disk, response, fetch, enum, drv, budget>>

\* for commit in commits[:10]: commit['sha'] (KeyError without it), then the
\* request of the commit; after the loop the sums are returned
SampleLoop ==
  /\ pc = "sample_loop"
  /\ IF grs.k > Min(Len(grs.commits), COMMIT_SAMPLE_LIMIT)
     THEN /\ grs' = Out(grs, grs.total_additions, grs.total_deletions)
          /\ hist' = Invoked(hist, "commits_sample", grs.total_additions, grs.total_deletions)
          /\ pc' = "cache_write"
          /\ UNCHANGED call
     ELSE IF "sha" \notin DOMAIN grs.commits[grs.k]
     THEN /\ pc' = ExceptionHandler
          /\ hist' = [hist EXCEPT !.inCall.escaped = TRUE]
          /\ UNCHANGED <<call, grs>>
     ELSE /\ MakeRequest(<<"commit", grs.repo_name, grs.commits[grs.k].sha>>, "", FALSE,
                         "commit_ret")
          /\ UNCHANGED <<grs, hist>>
  /\ UNCHANGED <<now, cache, disk, response, fetch, enum, drv, budget>>

\* the commit is back: commit_response.json() (which raises on a body that
\* does not parse), and its stats are added
CommitResponse ==
  /\ pc = "commit_ret"
  /\ IF ~Truthy(response)
     THEN /\ grs' = [grs EXCEPT !.k = @ + 1]
          /\ pc' = "sample_loop"
          /\ UNCHANGED hist
     ELSE IF ~response.body.ok
     THEN /\ pc' = ExceptionHandler
          /\ hist' = [hist EXCEPT !.inCall.escaped = TRUE]
          /\ UNCHANGED grs
     ELSE LET stats == Get(response.body.data, "stats", EmptyMap) IN
          /\ grs' = [grs EXCEPT !.k = @ + 1,
                                !.total_additions = @ + Get(stats, "additions", 0),
                                !.total_deletions = @ + Get(stats, "deletions", 0)]
          /\ pc' = "sample_loop"
          /\ UNCHANGED hist
  /\ response' = None
  /\ UNCHANGED <<now, cache, disk, call, fetch, enum, drv, budget>>

\* faulty variant of the cache write: an all-zero result is not stored
CacheWriteNonZero ==
  /\ pc = "cache_write"
  /\ LET entry == [additions |-> grs.additions, deletions |-> grs.deletions,
                   timestamp |-> now]
         stored == IF grs.additions = 0 /\ grs.deletions = 0 THEN EmptyMap
                   ELSE (<<"repo_stats", grs.repo_name, "v2">> :> entry)
     IN /\ cache' = stored @@ cache
        /\ hist' = [hist EXCEPT !.written = stored @@ @]
  /\ pc' = IF grs.caller = "test" THEN "test_return" ELSE "stats_return"
  /\ UNCHANGED <<now, disk, call, response, fetch, enum, drv, grs, budget>>

\* faulty variant of the write: the mapping is replaced by the new entry alone
CacheWriteReplacing ==
  /\ pc = "cache_write"
  /\ LET entry == CacheEntry(grs.additions, grs.deletions, now) IN
     /\ cache' = (CacheKey(grs.repo_name) :> entry)
     /\ hist' = [hist EXCEPT !.written = (CacheKey(grs.repo_name) :> entry) @@ @]
  /\ pc' = ReturnPoint
  /\ UNCHANGED <<now, disk, call, response, fetch, enum, drv, grs, budget>>

\* self.cache[cache_key] = {...}; return additions, deletions
CacheWrite ==
  /\ pc = "cache_write"
  /\ LET entry == CacheEntry(grs.additions, grs.deletions, now) IN
     /\ cache' = (CacheKey(grs.repo_name) :> entry) @@ cache
     /\ hist' = [hist EXCEPT !.written = (CacheKey(grs.repo_name) :> entry) @@ @]
  /\ pc' = ReturnPoint
  /\ UNCHANGED <<now, disk, call, response, fetch, enum, drv, grs, budget>>

(* ---- the user ----------------------------------------------------------------- *)
\* Ctrl-C raises KeyboardInterrupt where the program is.  The bare except of
\* _get_user_commits_sample swallows it ([] is returned); elsewhere it is no
\* Exception and unwinds to main(), whose handler saves the cache; raised
\* inside a handler of main() it ends the process.
KeyboardInterrupt ==
  /\ pc # "exit"
  /\ budget.interrupts > 0
  /\ budget' = [budget EXCEPT !.interrupts = @ - 1]
  /\ IF Where \in {"cf_sample_ret", "sample_ret"}
     THEN /\ pc' = Where
          /\ UNCHANGED <<fetch, enum, drv, grs, hist>>
     ELSE /\ pc' = IF pc \in {"main_kbd", "main_exc"} THEN "exit" ELSE "main_kbd"
          /\ hist' = IF pc' = "exit" THEN [hist EXCEPT !.outcome = "killed"] ELSE hist
          /\ fetch' = NoFetch /\ enum' = NoEnum /\ drv' = NoDrv /\ grs' = NoGrs
  /\ call' = NoCall
  /\ response' = None
  /\ UNCHANGED <<now, cache, disk>>

(* ---- a direct caller of get_repository_stats ------------------------------------ *)
\* the caller asks for the statistics of one repository, one request delay
\* after the analyzer was constructed
TestCall ==
  /\ pc = "test"
  /\ \E repo_name \in RepoNames :
       /\ now' = now + RATE_LIMIT_DELAY
       /\ grs' = [NoGrs EXCEPT !.repo_name = repo_name, !.caller = "test"]
       /\ hist' = Entered(hist, repo_name, now')
  /\ pc' = "cache_check"
  /\ UNCHANGED <<cache, disk, call, response, fetch, enum, drv, budget>>

\* it got them, and asks for the same repository again at once
TestAgain ==
  /\ pc = "test_return"
  /\ hist.first = <<>>
  /\ grs' = [NoGrs EXCEPT !.repo_name = grs.repo_name, !.caller = "test"]
  /\ hist' = [Entered(hist, grs.repo_name, now) EXCEPT
       !.first = <<[additions |-> grs.additions, deletions |-> grs.deletions,
                    hit |-> hist.inCall.hit]>>]
  /\ pc' = "cache_check"
  /\ UNCHANGED <<now, cache, disk, call, response, fetch, enum, drv, budget>>

\* it got them, and asks for the same repository again a second later
TestLater ==
  /\ pc = "test_return"
  /\ hist.first = <<>>
  /\ now' = now + RATE_LIMIT_DELAY
  /\ grs' = [NoGrs EXCEPT !.repo_name = grs.repo_name, !.caller = "test"]
  /\ hist' = [Entered(hist, grs.repo_name, now') EXCEPT
       !.first = <<[additions |-> grs.additions, deletions |-> grs.deletions,
                    hit |-> hist.inCall.hit]>>]
  /\ pc' = "cache_check"
  /\ UNCHANGED <<cache, disk, call, response, fetch, enum, drv, budget>>

\* the second answer, or an exception of either call, ends the caller
TestEnd ==
  /\ \/ pc = "test_return" /\ hist.first # <<>>
     \/ pc = "test_except"
  /\ pc' = "exit"
  /\ hist' = [hist EXCEPT !.outcome = IF pc = "test_except" THEN "raised" ELSE "returned"]
  /\ UNCHANGED <<now, cache, disk, call, response, fetch, enum, drv, grs, budget>>

(* ---- the program ---------------------------------------------------------------- *)
Request == RequestFails \/ RequestRateLimited \/ RateLimitSleep \/ RequestReturns

Cascade ==
  \/ CacheCheck
  \/ ContributorsPoll \/ ContributorsResponse \/ AfterContributors
  \/ CodeFrequencyPoll \/ CodeFrequencyResponse \/ CodeFrequencySample \/ CodeFrequencyTotal
  \/ AfterCodeFrequency
  \/ SampleResponse \/ SampleLoop \/ CommitResponse
  \/ CacheWrite

Next ==
  \/ Request
  \/ PaginateRequest \/ PaginateResponse
  \/ GetAllRepositories \/ PersonalDone \/ OrgsResponse \/ OrgLoop \/ OrgDone \/ Dedupe
  \/ StartLoop \/ LoopExit \/ SkipRepo \/ CallStats \/ Accumulate \/ RepoFault
  \/ SaveAfterLoop \/ Report
  \/ InterruptHandler \/ FaultHandler
  \/ Cascade
  \/ KeyboardInterrupt

\* one run of main()
Spec == Init /\ [][Next]_vars

\* get_repository_stats called directly on a constructed analyzer
InitCall ==
  /\ pc = "test"
  /\ budget = CallBudget
  /\ Constructed

NextCall == TestCall \/ TestAgain \/ TestLater \/ TestEnd \/ Request \/ Cascade

SpecCall == InitCall /\ [][NextCall]_vars

(* ---- properties ------------------------------------------------------------------ *)
\* the call of get_repository_stats under the direct caller has ended
CallEnded == pc \in {"test_return", "test_except"}

\* the key of the repository of the call, as the specification spells it
KeyOfCall == <<"repo_stats", grs.repo_name, "v2">>

\* the cache, as the call found it, holds an entry for the key that carries a
\* timestamp less than a day older than the time of the lookup
FoundFresh ==
  /\ KeyOfCall \in DOMAIN hist.inCall.cache
  /\ "timestamp" \in DOMAIN hist.inCall.cache[KeyOfCall]
  /\ hist.inCall.now - hist.inCall.cache[KeyOfCall].timestamp < 86400

\* C1: get_repository_stats returns the cached additions/deletions and issues
\* no request if and only if the cache holds an entry for the key with
\* now - timestamp < 86400; in every other case (no entry, no timestamp, a day
\* old or older) the cascade is run and at least one request is attempted.
C1_CacheHitIffFresh ==
  /\ hist.inCall.requests > 0 => ~FoundFresh
  /\ CallEnded =>
       /\ hist.inCall.hit <=> FoundFresh
       /\ FoundFresh =>
            /\ pc = "test_return"
            /\ hist.inCall.requests = 0
            /\ hist.inCall.started = <<>>
            /\ grs.additions = hist.inCall.cache[KeyOfCall].additions
            /\ grs.deletions = hist.inCall.cache[KeyOfCall].deletions
            /\ cache = hist.inCall.cache
       /\ ~FoundFresh =>
            /\ hist.inCall.requests >= 1
            /\ hist.inCall.started # <<>>

\* reached: a first lookup is answered from an entry one second short of a day old
C1_Witness ==
  /\ pc = "test_return"
  /\ hist.first = <<>>
  /\ hist.inCall.hit
  /\ hist.inCall.requests = 0
  /\ hist.inCall.now - hist.inCall.cache[KeyOfCall].timestamp = 86399
  /\ grs.additions = 10 /\ grs.deletions = 2

StrategyOrder == <<"contributors", "code_frequency", "commits_sample">>

\* C2: on a miss the strategies are invoked in the order contributor-stats,
\* code-frequency, commit-sampling; a later one is invoked only when every
\* earlier one returned (0,0), none is invoked after a non-zero result, and
\* the cascade does not stop before a non-zero result or the last strategy.
C2_StrategyOrder ==
  LET started == hist.inCall.started
      invoked == hist.inCall.invoked
  IN /\ Len(started) <= 3
     /\ \A i \in 1..Len(started) : started[i] = StrategyOrder[i]
     /\ Len(invoked) <= Len(started)
     /\ Len(started) <= Len(invoked) + 1
     /\ \A i \in 1..Len(invoked) : invoked[i].strategy = started[i]
     /\ \A i \in 1..(Len(started) - 1) :
          invoked[i].additions = 0 /\ invoked[i].deletions = 0
     /\ hist.inCall.hit => started = <<>>
     /\ (pc = "test_return" /\ ~hist.inCall.hit) =>
          /\ Len(invoked) = Len(started)
          /\ Len(started) >= 1
          /\ Len(started) < 3 =>
               (invoked[Len(invoked)].additions # 0 \/ invoked[Len(invoked)].deletions # 0)

\* reached: the contributor strategy gave (0,0), the code-frequency strategy a
\* non-zero estimate, and the call returned without sampling commits
C2_Witness ==
  /\ pc = "test_return"
  /\ hist.inCall.started = <<"contributors", "code_frequency">>
  /\ Len(hist.inCall.invoked) = 2
  /\ hist.inCall.invoked[1].additions = 0 /\ hist.inCall.invoked[1].deletions = 0
  /\ hist.inCall.invoked[2].additions > 0

\* C3: on a miss the value returned is the result of exactly one strategy, the
\* last one invoked (all earlier ones gave (0,0)); after two (0,0) results the
\* commit-sampling result is the answer even when it is (0,0) too.
C3_ReturnsLastStrategy ==
  (pc = "test_return" /\ ~hist.inCall.hit) =>
    LET invoked == hist.inCall.invoked
        n == Len(invoked)
    IN /\ n >= 1
       /\ grs.additions = invoked[n].additions
       /\ grs.deletions = invoked[n].deletions
       /\ \A i \in 1..(n - 1) : invoked[i].additions = 0 /\ invoked[i].deletions = 0
       /\ (n >= 2 /\ invoked[1].additions = 0 /\ invoked[1].deletions = 0
             /\ invoked[2].additions = 0 /\ invoked[2].deletions = 0) =>
            /\ n = 3
            /\ invoked[3].strategy = "commits_sample"

\* reached: all three strategies gave (0,0) and (0,0) is returned
C3_Witness ==
  /\ pc = "test_return"
  /\ ~hist.inCall.hit
  /\ Len(hist.inCall.invoked) = 3
  /\ hist.inCall.invoked[3].strategy = "commits_sample"
  /\ hist.inCall.invoked[3].additions = 0 /\ hist.inCall.invoked[3].deletions = 0
  /\ grs.additions = 0 /\ grs.deletions = 0

\* C4: a call that runs the cascade and returns has written the returned
\* (additions, deletions), zero or not, under the repository's key with the
\* current time as timestamp; a lookup of the same repository that follows
\* at once is a hit that returns the same values without a request.
C4_ResultCached ==
  /\ (pc = "test_return" /\ ~hist.inCall.hit) =>
       /\ KeyOfCall \in DOMAIN cache
       /\ cache[KeyOfCall] = [additions |-> grs.additions,
                              deletions |-> grs.deletions,
                              timestamp |-> now]
  /\ (CallEnded /\ hist.first # <<>> /\ ~hist.first[1].hit) =>
       /\ pc = "test_return"
       /\ hist.inCall.hit
       /\ hist.inCall.requests = 0
       /\ grs.additions = hist.first[1].additions
       /\ grs.deletions = hist.first[1].deletions

\* reached: an all-zero result of the cascade is served again by the cache
C4_Witness ==
  /\ pc = "test_return"
  /\ hist.first # <<>>
  /\ ~hist.first[1].hit
  /\ hist.first[1].additions = 0 /\ hist.first[1].deletions = 0
  /\ hist.inCall.hit
  /\ grs.additions = 0 /\ grs.deletions = 0

\* the driver's skip rules, in the words of the specification: marked as a
\* fork, of size 0, or without a size
ToBeSkipped(repo) ==
  \/ ("fork" \in DOMAIN repo /\ repo.fork = TRUE)
  \/ "size" \notin DOMAIN repo
  \/ repo.size = 0

\* C5: the cascade is invoked for a repository only if it is not a fork and
\* its size is non-zero: for a repository with fork=true, size=0 or no size
\* there is no cascade invocation, no network request and no cache write.
C5_SkippedUntouched ==
  \A i \in 1..Len(drv.repos) :
    ToBeSkipped(drv.repos[i]) =>
      /\ \A j \in 1..Len(hist.calls) : hist.calls[j] # drv.repos[i].full_name
      /\ drv.repos[i].full_name \notin hist.net
      /\ <<"repo_stats", drv.repos[i].full_name, "v2">> \notin DOMAIN hist.written
      /\ (pc \notin {"loop", "analyze"} /\ hist.outcome = "running") => drv.i # i

\* reached: the loop is through a list with a record without size and a
\* repository that was analyzed over the network
C5_Witness ==
  /\ pc = "report"
  /\ Len(drv.repos) = 2
  /\ \E i \in 1..2 : "size" \notin DOMAIN drv.repos[i]
  /\ \E i \in 1..2 : "fork" \in DOMAIN drv.repos[i] /\ ~ToBeSkipped(drv.repos[i])
  /\ Len(hist.calls) = 1
  /\ hist.net # {}

\* C6: on every path by which the run ends (normal completion, an
\* interruption at any point, a top-level fault) _save_cache is called before
\* the process exits, with a mapping that holds every cascade result written
\* in the run.
C6_SavedOnEveryExit ==
  pc = "exit" =>
    /\ hist.saved # <<>>
    /\ LET last == hist.saved[Len(hist.saved)] IN
       \A k \in DOMAIN hist.written :
         k \in DOMAIN last /\ last[k] = hist.written[k]

\* C7: a fault raised while one repository is processed is caught for that
\* repository alone: it never reaches main(), the loop goes on with the next
\* repository in enumeration order up to normal completion, and the faulting
\* repository adds nothing to the totals, the breakdown or the cache.
C7_FaultContained ==
  /\ pc = "main_exc" => (hist.calls = <<>> /\ hist.processed = <<>>)
  /\ pc = "repo_except" =>
       /\ drv.total_additions = hist.atIter.total_additions
       /\ drv.total_deletions = hist.atIter.total_deletions
       /\ drv.repos_with_contributions = hist.atIter.breakdown
       /\ cache = hist.atIter.cache
       /\ Len(hist.processed) = drv.i - 1
  /\ (pc = "loop" \/ hist.outcome = "completed") =>
       /\ drv.i = Len(hist.processed) + 1
       /\ \A j \in 1..Len(hist.processed) :
            /\ hist.processed[j].name = drv.repos[j].full_name
            /\ hist.processed[j].kind = "fault" =>
                 /\ \A k \in 1..Len(drv.repos_with_contributions) :
                      drv.repos_with_contributions[k].name # hist.processed[j].name
                 /\ <<"repo_stats", hist.processed[j].name, "v2">> \notin DOMAIN hist.written
  /\ hist.outcome = "completed" => Len(hist.processed) = Len(drv.repos)

\* reached: the first repository faulted, the second one was analyzed and
\* counted, and the run completed
C7_Witness ==
  /\ hist.outcome = "completed"
  /\ Len(hist.processed) = 2
  /\ hist.processed[1].kind = "fault"
  /\ hist.processed[2].kind = "result"
  /\ hist.processed[2].additions > 0
  /\ Len(drv.repos_with_contributions) = 1

\* C8: no exception escapes get_repository_stats, whatever the responses are
\* (any status, absent, unparsable bodies, bodies without the expected
\* fields), the per-commit fetches included: the call returns a value.
C8_NothingEscapes ==
  /\ ~hist.inCall.escaped
  /\ pc # "test_except"

\* position of the first record of the listings that carries the name
FirstListed(name) ==
  CHOOSE i \in 1..Len(hist.listed) :
    /\ hist.listed[i].full_name = name
    /\ \A j \in 1..(i - 1) : hist.listed[j].full_name # name

\* C9: get_all_repositories returns a sequence without two entries of the same
\* full_name, with every full_name of the personal or an organization listing,
\* each by its first occurrence, in first-seen order (personal listing first,
\* then the organizations in the order listed).
C9_FirstOccurrences ==
  pc = "analyze" =>
    /\ \A i, j \in 1..Len(drv.repos) :
         i # j => drv.repos[i].full_name # drv.repos[j].full_name
    /\ {drv.repos[i].full_name : i \in 1..Len(drv.repos)}
         = {hist.listed[i].full_name : i \in 1..Len(hist.listed)}
    /\ \A i \in 1..Len(drv.repos) :
         drv.repos[i] = hist.listed[FirstListed(drv.repos[i].full_name)]
    /\ \A i, j \in 1..Len(drv.repos) :
         i < j => FirstListed(drv.repos[i].full_name) < FirstListed(drv.repos[j].full_name)

\* reached: a name listed twice with different metadata, around another name;
\* the first record and the other name are returned
C9_Witness ==
  /\ pc = "analyze"
  /\ Len(hist.listed) = 3
  /\ hist.listed[1].full_name = hist.listed[3].full_name
  /\ hist.listed[1] # hist.listed[3]
  /\ hist.listed[2].full_name # hist.listed[1].full_name
  /\ drv.repos = <<hist.listed[1], hist.listed[2]>>

RECURSIVE SumOf(_, _)
\* the sum of the field f over the records of s
SumOf(s, f) == IF s = <<>> THEN 0 ELSE Head(s)[f] + SumOf(Tail(s), f)

\* a repository that was analyzed without fault and has lines to its name
Contributing(p) == p.kind = "result" /\ (p.additions > 0 \/ p.deletions > 0)

\* C10: at every point of the loop and at completion the totals are the sums
\* of additions and deletions over the breakdown, and the breakdown holds, in
\* enumeration order, exactly the repositories processed so far that were not
\* skipped, did not fault, and have a result with additions > 0 or deletions > 0.
C10_TotalsMatchBreakdown ==
  (hist.outcome \in {"running", "completed"} /\ pc # "main_kbd") =>
    LET breakdown == drv.repos_with_contributions
        contributing == SelectSeq(hist.processed, Contributing)
    IN /\ drv.total_additions = SumOf(breakdown, "additions")
       /\ drv.total_deletions = SumOf(breakdown, "deletions")
       /\ drv.processed_repos = Len(breakdown)
       /\ Len(breakdown) = Len(contributing)
       /\ \A k \in 1..Len(breakdown) :
            breakdown[k] = [name |-> contributing[k].name,
                            additions |-> contributing[k].additions,
                            deletions |-> contributing[k].deletions]
       /\ Len(hist.processed) <= Len(drv.repos)
       /\ \A j \in 1..Len(hist.processed) :
            hist.processed[j].name = drv.repos[j].full_name

\* reached: of two repositories analyzed, one has only deletions to its name
\* and the other has both; both are in the breakdown and in the totals
C10_Witness ==
  /\ pc = "report"
  /\ Len(drv.repos_with_contributions) = 2
  /\ \E k \in 1..2 : drv.repos_with_contributions[k].additions = 0
  /\ drv.total_additions = 80
  /\ drv.total_deletions = 19

\* the frame of _make_request but for the locals of the rate-limit branch
Frame(c) == <<c.url, c.params, c.allow_non_200, c.ret>>

\* C11: a rate-limit exceedance never surfaces to the caller of _make_request:
\* with either value of allow_non_200 and any number of notices in a row,
\* each notice is followed by a wait and a retry of the identical request, and
\* what is finally returned is the outcome of a request that was not
\* rate-limited, never the notice and never None on account of the notice.
C11_RateLimitHidden ==
  [][/\ response'.marker = FALSE
     /\ budget'.rateLimits # budget.rateLimits =>
          /\ pc = "make_request"
          /\ pc' = "rate_limit_sleep"
          /\ response'.status = response.status
          /\ Frame(call') = Frame(call)
     /\ pc = "rate_limit_sleep" =>
          /\ pc' = "make_request"
          /\ now' > now
          /\ Frame(call') = Frame(call)
          /\ response'.status = response.status
          /\ budget' = budget
     /\ (pc = "make_request" /\ pc' # "rate_limit_sleep") =>
          /\ pc' = call.ret
          /\ budget'.rateLimits = budget.rateLimits]_vars

\* reached: two notices in a row for a request with allow_non_200, and the
\* answer of the third attempt is what the strategy gets
C11_Witness ==
  /\ pc = "contributors_ret"
  /\ budget.rateLimits = 0
  /\ hist.inCall.requests = 3
  /\ response.status = 200
  /\ now >= StartTime + 120

\* C14: on a rate-limit notice _make_request waits max(reset header - now, 60)
\* seconds before it retries: never less than 60, whether the header is
\* missing, in the past or at now + 5, and the retry is not made before the
\* wait is over.
C14_WaitAtLeastAMinute ==
  [][pc = "rate_limit_sleep" =>
       /\ call.wait >= 60
       /\ call.wait = (IF call.reset_time - now > 60 THEN call.reset_time - now ELSE 60)
       /\ pc' = "make_request"
       /\ now' = now + call.wait]_vars

\* reached: the header says now + 5 and the wait is 60 seconds
C14_Witness ==
  /\ pc = "rate_limit_sleep"
  /\ call.reset_time = now + 5
  /\ call.wait = 60

\* requests of the call so far that were not answered by a rate-limit notice
\* (the one in flight included)
Unlimited == hist.inCall.requests - hist.inCall.limited

\* the contributor strategy is running: in its loop, or with a request out
InContributors ==
  \/ pc \in {"contributors", "contributors_ret"}
  \/ (pc \in {"make_request", "rate_limit_sleep"} /\ call.ret = "contributors_ret")

\* the count of its requests: one per 202 seen, and the one that is out
ContributorRequests ==
  /\ InContributors =>
       /\ grs.attempt <= 6
       /\ pc = "contributors" => Unlimited = grs.attempt
       /\ pc = "contributors_ret" => (Unlimited = grs.attempt + 1 /\ grs.attempt <= 5)
       /\ pc = "make_request" => (Unlimited = grs.attempt /\ grs.attempt <= 5)
       /\ pc = "rate_limit_sleep" => (Unlimited = grs.attempt /\ grs.attempt <= 5)
  /\ pc = "after_contributors" => (Unlimited >= 1 /\ Unlimited <= 6)

\* C12: when the contributor endpoint answers 202 to every poll, the strategy
\* makes exactly 6 requests and then returns (0,0) without raising; in every
\* run it makes at most 6 requests that are not rate-limited, and it polls
\* again only after a 202.
C12_SixPolls ==
  [][/\ ContributorRequests'
     /\ pc = "contributors" =>
          IF grs.attempt = 6
          THEN /\ pc' = "after_contributors"
               /\ grs'.additions = 0 /\ grs'.deletions = 0
               /\ hist'.inCall.requests = hist.inCall.requests
          ELSE pc' = "make_request" /\ call'.ret = "contributors_ret"
     /\ pc = "contributors_ret" =>
          IF response.status = 202
          THEN /\ pc' = "contributors"
               /\ grs'.attempt = grs.attempt + 1
               /\ now' = now + 5
          ELSE pc' = "after_contributors"]_vars

\* reached: six polls, each answered 202, and (0,0) comes back
C12_Witness ==
  /\ pc = "after_contributors"
  /\ Unlimited = 6
  /\ budget.pending = CallPending - 6
  /\ hist.inCall.invoked = <<[strategy |-> "contributors", additions |-> 0, deletions |-> 0]>>

\* positions of the records of the user among the contributor records
RecordsOfUser(data) ==
  {i \in 1..Len(data) :
     "author" \in DOMAIN data[i] /\ data[i].author.login = GITHUB_USERNAME}

\* the weekly sums of the first record of the user, (0,0) without one
SumsOfUser(data) ==
  IF RecordsOfUser(data) = {} THEN <<0, 0>>
  ELSE LET first == CHOOSE i \in RecordsOfUser(data) :
                      \A j \in RecordsOfUser(data) : i <= j
       IN <<SumOf(data[first].weeks, "a"), SumOf(data[first].weeks, "d")>>

\* C13: on a 200 the contributor strategy returns, for the first record whose
\* author login is the target username, the sum of the weekly 'a' values as
\* additions and of the weekly 'd' values as deletions (weeks {a:50,d:10},
\* {a:30,d:5} give 80 and 15), (0,0) if no record matches; on 204, 422, any
\* other status but 202 or an absent response it returns (0,0) at once, with
\* no further poll.
C13_ContributorSums ==
  [][(pc = "contributors_ret" /\ response.status # 202) =>
       /\ pc' = "after_contributors"
       /\ hist'.inCall.requests = hist.inCall.requests
       /\ <<grs'.additions, grs'.deletions>> =
            (IF response.status = 200 /\ response.body.ok
             THEN SumsOfUser(response.body.data)
             ELSE <<0, 0>>)
       /\ (response.status = 200 /\ response.body.ok
             /\ 2 \in RecordsOfUser(response.body.data)
             /\ response.body.data[2].weeks = <<[a |-> 50, d |-> 10], [a |-> 30, d |-> 5]>>)
            => (grs'.additions = 80 /\ grs'.deletions = 15)]_vars

\* reached: the user's record, the second of the body, has given 80 and 15
C13_Witness ==
  /\ pc = "after_contributors"
  /\ grs.additions = 80 /\ grs.deletions = 15
  /\ hist.inCall.requests = 1

\* C15: with allow_non_200 false _make_request returns a response only when
\* its status is 200 and None for every other status that is no rate-limit
\* notice; with either value of allow_non_200 a network failure gives None; no
\* exception leaves _make_request: every request that is not rate-limited
\* ends with a return to the caller, of None or of a response object.
C15_OnlyOkOrAbsent ==
  [][(pc = "make_request" /\ pc' # "rate_limit_sleep") =>
       /\ pc' = call.ret
       /\ hist'.inCall.escaped = hist.inCall.escaped
       /\ response'.status \in {0, 200, 202, 204, 403, 422}
       /\ ~call.allow_non_200 => response'.status \in {0, 200}
       /\ response'.status = 0 => (response' = None /\ now' = now)
       /\ response'.status # 0 => now' = now + 1]_vars

\* reached: the commit listing, asked for without allow_non_200, came back absent
C15_Witness ==
  /\ pc = "sample_ret"
  /\ response.status = 0
  /\ hist.inCall.requests - hist.inCall.limited = 3

\* _get_paginated_data is running: in its loop, or with a page request out
InPagination ==
  \/ pc \in {"paginate", "paginate_ret"}
  \/ (pc \in {"make_request", "rate_limit_sleep"} /\ call.ret = "paginate_ret")

\* the results hold what the pages before the current one gave: nothing before
\* page 1, and with the listings returned earlier all that was listed so far
PagesSoFar ==
  InPagination =>
    /\ fetch.page >= 1
    /\ fetch.page = 1 => fetch.results = <<>>
    /\ Len(fetch.results) >= fetch.page - 1
    /\ enum.repos \o fetch.results = hist.listed
    /\ pc \in {"make_request", "rate_limit_sleep"} =>
         (call.params = [page |-> fetch.page, per_page |-> 100] /\ ~call.allow_non_200)

\* C16: _get_paginated_data asks for the pages 1, 2, 3, ... in increasing order
\* with allow_non_200 false, stops at the first page whose request returns
\* absent or whose items are empty (no request after it), and returns the
\* concatenation, in page order and without deduplication, of the items of
\* all pages before that one.
C16_PagesInOrder ==
  [][budget'.interrupts = budget.interrupts =>
       /\ PagesSoFar'
       /\ pc = "paginate" =>
            /\ pc' = "make_request"
            /\ call'.url = fetch.url
            /\ call'.params = [page |-> fetch.page, per_page |-> 100]
            /\ ~call'.allow_non_200
            /\ fetch' = fetch
       /\ (pc = "paginate_ret" /\ response.status = 0) =>
            (pc' = fetch.ret /\ fetch' = fetch)
       /\ (pc = "paginate_ret" /\ response.status # 0 /\ response.body.ok) =>
            IF response.body.data = <<>>
            THEN pc' = fetch.ret /\ fetch' = fetch
            ELSE /\ pc' = "paginate"
                 /\ fetch'.page = fetch.page + 1
                 /\ fetch'.results = fetch.results \o response.body.data
                 /\ fetch'.url = fetch.url]_vars

\* reached: two pages with items, then the end; a record that came twice is
\* twice in what is returned
C16_Witness ==
  /\ pc = "personal_done"
  /\ fetch.page = 3
  /\ Len(fetch.results) = 3
  /\ fetch.results[1] = fetch.results[3]
  /\ fetch.results[2] # fetch.results[1]

RECURSIVE WeeklyTotal(_, _)
\* the sum of the entries at position col of the weekly rows that have one
WeeklyTotal(rows, col) ==
  IF rows = <<>> THEN 0
  ELSE WeeklyTotal(Tail(rows), col)
         + (IF Len(Head(rows)) >= col THEN Head(rows)[col] ELSE 0)

\* trunc(total * min(n / 100, 0.5)) for total >= 0, in whole numbers
Share(total, n) == IF n >= 50 THEN total \div 2 ELSE (total * n) \div 100

\* the weekly data and the sample the strategy holds give this estimate
EstimateDue ==
  LET A == WeeklyTotal(grs.frequency_data, 2)
      D == IF WeeklyTotal(grs.frequency_data, 3) < 0
           THEN 0 - WeeklyTotal(grs.frequency_data, 3)
           ELSE WeeklyTotal(grs.frequency_data, 3)
  IN <<Share(A, Len(grs.commits)), Share(D, Len(grs.commits)), A, D>>

\* C17 as stated: with weekly data and a sample of n >= 1 commits the strategy
\* returns (trunc(A*s), trunc(D*s)), s = min(n/100, 0.5), whatever else happens.
C17_EstimateAlways ==
  [][pc = "cf_total_ret" =>
       /\ Len(grs.commits) >= 1
       /\ grs'.additions = EstimateDue[1]
       /\ grs'.deletions = EstimateDue[2]]_vars

\* C17, amended: with weekly data and a sample of n >= 1 commits the strategy
\* asks for the commit listing once more; when that request returns a response
\* it returns (trunc(A*s), trunc(D*s)), s = min(n/100, 0.5), A the sum of the
\* weekly additions and D the absolute value of the sum of the weekly
\* deletions, never more than half of A and D; when that request returns
\* absent it returns (0,0).  With an empty sample it returns (0,0).
C17_EstimateWhenListed ==
  [][/\ pc = "cf_total_ret" =>
          /\ Len(grs.commits) >= 1
          /\ grs.frequency_data # <<>>
          /\ pc' = "after_code_frequency"
          /\ IF response.status # 0
             THEN /\ grs'.additions = EstimateDue[1]
                  /\ grs'.deletions = EstimateDue[2]
                  /\ 2 * grs'.additions <= EstimateDue[3]
                  /\ 2 * grs'.deletions <= EstimateDue[4]
             ELSE grs'.additions = 0 /\ grs'.deletions = 0
     /\ pc = "cf_sample_ret" =>
          IF response.status # 0 /\ response.body.ok /\ response.body.data # <<>>
          THEN /\ pc' = "make_request"
               /\ grs'.commits = response.body.data
               /\ call'.url = <<"commits", grs.repo_name>>
          ELSE /\ pc' = "after_code_frequency"
               /\ grs'.additions = 0 /\ grs'.deletions = 0]_vars

\* reached: weekly totals of 350 and 50 and a sample of 51 commits have given
\* the capped estimate, half of each
C17_Witness ==
  /\ pc = "after_code_frequency"
  /\ Len(hist.inCall.invoked) = 2
  /\ grs.additions = 175 /\ grs.deletions = 25

\* the keys whose entry a step adds or changes
Touched(before, after) ==
  {k \in DOMAIN after : k \notin DOMAIN before \/ after[k] # before[k]}

\* C18: over a whole run no key is removed from the cache mapping and the
\* mapping is never replaced: the set of keys only grows, and a call of
\* get_repository_stats(repo) changes at most the entry keyed by the full_name
\* of its repository, every other entry staying as it was.
C18_KeysOnlyGrow ==
  [][/\ DOMAIN cache \subseteq DOMAIN cache'
     /\ Touched(cache, cache') \subseteq {<<"repo_stats", grs.repo_name, "v2">>}
     /\ Touched(cache, cache') # {} =>
          /\ pc = "cache_write"
          /\ grs.caller = "driver"
          /\ drv.i \in 1..Len(drv.repos)
          /\ grs.repo_name = drv.repos[drv.i].full_name]_vars

\* reached: a call has overwritten the entry of its repository and the entry
\* of the other repository and the key of the older format are as loaded
C18_Witness ==
  /\ pc = "stats_return"
  /\ disk.state = "ok"
  /\ <<"repo_stats", "b">> \in DOMAIN cache
  /\ CacheKey("a") \in DOMAIN hist.written
  /\ cache[CacheKey("a")] = hist.written[CacheKey("a")]
  /\ cache[CacheKey("a")] # disk.data[CacheKey("a")]
  /\ \A k \in DOMAIN disk.data \ {CacheKey("a")} :
       k \in DOMAIN cache /\ cache[k] = disk.data[k]

\* C19: a cache hit of get_repository_stats leaves the whole cache mapping
\* as it was, the timestamp of the entry included; so after a hit the next
\* lookup finds the mapping that was loaded, and it reuses the entry exactly
\* when fewer than 86400 seconds have passed since the timestamp the entry was
\* written with, the read in between having renewed nothing.
C19_HitLeavesCacheAlone ==
  /\ (pc = "test_return" /\ hist.inCall.hit) => cache = hist.inCall.cache
  /\ (hist.first # <<>> /\ hist.first[1].hit) =>
       /\ hist.inCall.cache = LoadCache(disk)
       /\ CallEnded =>
            (hist.inCall.hit <=>
               hist.inCall.now - LoadCache(disk)[KeyOfCall].timestamp < 86400)

\* reached: an entry read one second short of a day after it was written is
\* not reused a second later, and the cascade has run
C19_Witness ==
  /\ pc = "test_return"
  /\ hist.first # <<>> /\ hist.first[1].hit
  /\ ~hist.inCall.hit
  /\ hist.inCall.requests >= 1
  /\ hist.inCall.now - LoadCache(disk)[KeyOfCall].timestamp = 86400

\* get_repository_stats is running
InCall == pc \notin {"test", "test_return", "test_except", "exit"}

\* where the call is; with a request out, where the request returns to
Position == IF pc \in {"make_request", "rate_limit_sleep"} THEN call.ret ELSE pc

\* the requests, rate-limit notices apart, the call may still make: 6
\* contributor polls, 6 code-frequency polls and 2 listings, 1 listing and 10
\* commits, less what the position and the loop counters show as done
RemainingRequests ==
  LET out == IF pc \in {"make_request", "rate_limit_sleep"} THEN 1 ELSE 0 IN
  CASE Position = "cache_check" -> 25
    [] Position = "contributors" -> 19 + (6 - grs.attempt)
    [] Position = "contributors_ret" -> 19 + (5 - grs.attempt) + out
    [] Position = "after_contributors" -> 19
    [] Position = "code_frequency" -> 13 + (6 - grs.attempt)
    [] Position = "code_frequency_ret" -> 13 + (5 - grs.attempt) + out
    [] Position = "cf_sample_ret" -> 12 + out
    [] Position = "cf_total_ret" -> 11 + out
    [] Position = "after_code_frequency" -> 11
    [] Position = "sample_ret" -> 10 + out
    [] Position = "sample_loop" -> 11 - grs.k
    [] Position = "commit_ret" -> (10 - grs.k) + out
    [] OTHER -> 0

\* the order of the positions between two requests
Rank ==
  CASE pc = "cache_check" -> 12
    [] pc = "contributors_ret" -> 11
    [] pc = "contributors" -> 10
    [] pc = "after_contributors" -> 9
    [] pc = "code_frequency_ret" -> 8
    [] pc = "code_frequency" -> 7
    [] pc = "cf_sample_ret" -> 6
    [] pc = "cf_total_ret" -> 5
    [] pc = "after_code_frequency" -> 4
    [] pc \in {"sample_ret", "commit_ret"} -> 4
    [] pc = "sample_loop" -> 3
    [] pc = "cache_write" -> 2
    [] pc = "rate_limit_sleep" -> 1
    [] OTHER -> 0

\* a measure of what is left of the call: the requests it may still make,
\* then the rate-limit notices still to come, then the position
Measure ==
  RemainingRequests * 16 * (CallRateLimits + 1) + 16 * budget.rateLimits + Rank

\* C20: every request returning and the rate-limit notices being finitely
\* many, a call of get_repository_stats terminates whatever the responses
\* are (every step of it lowers a measure that is never negative) after at
\* most 25 requests that are not rate-limited: at most 6 contributor polls,
\* at most 6 code-frequency polls and 2 commit listings, at most 1 commit
\* listing and 10 commit requests of the sampling strategy.
C20_CallTerminates ==
  [][/\ InCall' =>
          /\ RemainingRequests' >= 0
          /\ Unlimited' + RemainingRequests' <= 25
          /\ Measure' >= 0
     /\ (InCall /\ InCall') => Measure' < Measure
     /\ pc' = "after_contributors" => Unlimited' <= 6
     /\ pc' = "after_code_frequency" => Unlimited' <= 6 + (6 + 2)
     /\ CallEnded' => Unlimited' <= 6 + (6 + 2) + (1 + 10)]_vars

\* reached: a call has returned after 25 requests that were not rate-limited
C20_Witness ==
  /\ pc = "test_return"
  /\ Unlimited = 25
  /\ hist.inCall.started = <<"contributors", "code_frequency", "commits_sample">>
  /\ Len(hist.inCall.invoked) = 3

====
